---- MODULE Spec2Model ----
(***************************************************************************)
(* The simulation core of jmbhughes/asteroids (src/src/main.rs, mod game). *)
(*                                                                         *)
(* One frame of the Bevy app is modelled as: TickStart (the input feed of  *)
(* the frame), then one step per system of GamePlugin in any order the     *)
(* schedule allows (the systems are registered without ordering, so every  *)
(* order of the seven state-changing systems is possible), then Flush      *)
(* (apply_system_buffers, which applies the Commands the systems queued).  *)
(*                                                                         *)
(* f32 values are fixed point: positions and scales in 1/Unit, velocities  *)
(* and direction vectors in 1/VelUnit.  Angles are whole multiples of      *)
(* STARSHIP_ROTATION_SPEED (5 degrees).                                    *)
(*                                                                         *)
(* SpecApp starts the application at GameState::Splash; the other          *)
(* specifications start in GameState::Game, from setup_game's world or     *)
(* from a later state of the game.                                         *)
(***************************************************************************)
EXTENDS Integers, Sequences, FiniteSets

\* ---------------------------------------------------------------- bounds
\* Frames a run with moving asteroids may take.
MaxTicks == 3
\* Space press events delivered over a run.
MaxShots == 2
\* Frames of a flight run, and the frames of it in which Up may be held and in
\* which Left or Right may be held.
FlightTicks == 2
MaxThrust == 2
MaxRot == 1

\* ------------------------------------------------------------- fixed point
\* Positions and scales are stored in tenths of a unit.
Unit == 10
\* Velocities and direction vectors are stored in thousandths of a unit.
VelUnit == 1000

\* ---------------------------------------------------------------- constants
VIEWPORT_WIDTH == 1280
VIEWPORT_HEIGHT == 720
VIEWPORT_MAX_X == (VIEWPORT_WIDTH * Unit) \div 2
VIEWPORT_MIN_X == 0 - VIEWPORT_MAX_X
VIEWPORT_MAX_Y == (VIEWPORT_HEIGHT * Unit) \div 2
VIEWPORT_MIN_Y == 0 - VIEWPORT_MAX_Y
ASTEROID_VELOCITY == 2 * VelUnit
BULLET_VELOCITY == 6
BULLET_DISTANCE == (VIEWPORT_HEIGHT * Unit * 8) \div 10
\* STARSHIP_ACCELERATION = 0.2: direction * 0.2 is direction \div 5.
AccelDivisor == 5
\* 1.0 - STARSHIP_DECELERATION = 0.99, as a fraction of 100.
DecayPercent == 99
STARSHIP_MAX_VELOCITY == 10 * VelUnit
\* Transform scales set at spawn.
StarshipScale == 50 * Unit
BulletScale == 5 * Unit
\* Transform::default() has scale 1.
DefaultScale == 1 * Unit
\* setup_game spawns this many asteroids.
InitialAsteroids == 6

\* AsteroidSize::scale
AsteroidScale(size) ==
  CASE size = "Big" -> 100 * Unit
    [] size = "Medium" -> 65 * Unit
    [] size = "Small" -> 30 * Unit

\* The match in detect_bullet_asteroid_collision: the next smaller size, or None.
AsteroidNewSize(size) ==
  CASE size = "Big" -> "Medium"
    [] size = "Medium" -> "Small"
    [] size = "Small" -> "None"

\* Division rounding toward zero (symmetric in the sign of n).
TruncDiv(n, d) == IF n < 0 THEN 0 - ((0 - n) \div d) ELSE n \div d

VAdd(a, b) == <<a[1] + b[1], a[2] + b[2]>>
VSub(a, b) == <<a[1] - b[1], a[2] - b[2]>>

\* Vec2::length squared.
LenSq(v) == v[1] * v[1] + v[2] * v[2]

\* cos of k * 5 degrees for k = 0..18, in 1/VelUnit.
CosTable ==
  <<1000, 996, 985, 966, 940, 906, 866, 819, 766, 707,
    643, 574, 500, 423, 342, 259, 174, 87, 0>>

CosStep(k) ==
  LET m == k % 72
  IN  IF m <= 18 THEN CosTable[m + 1]
      ELSE IF m <= 36 THEN 0 - CosTable[(36 - m) + 1]
      ELSE IF m <= 54 THEN 0 - CosTable[(m - 36) + 1]
      ELSE CosTable[(72 - m) + 1]

SinStep(k) == CosStep(k - 18)

\* A direction without the quarter turn: rotation 0 points along +x.
Direction_NoQuarterTurn(rot) == <<CosStep(rot), SinStep(rot)>>

\* Starship::direction: (cos, sin) of rotation_angle + PI/2.
Direction(rot) == <<CosStep(rot + 18), SinStep(rot + 18)>>

\* Largest r with r * r <= n, by bisection on lo..hi.
RECURSIVE Isqrt(_, _, _)
Isqrt(n, lo, hi) ==
  IF lo >= hi THEN lo
  ELSE LET mid == (lo + hi + 1) \div 2
       IN  IF mid * mid <= n THEN Isqrt(n, mid, hi) ELSE Isqrt(n, lo, mid - 1)

\* Vec2::length of a velocity-scaled vector.
Length(v) == Isqrt(LenSq(v), 0, 46000)

\* Vec2::normalize_or_zero of v, times `mag`.
ScaleTo(v, mag) ==
  LET len == Length(v)
  IN  IF len = 0 THEN <<0, 0>>
      ELSE <<TruncDiv(v[1] * mag, len), TruncDiv(v[2] * mag, len)>>

\* A velocity (1/VelUnit per frame) as a position step (1/Unit).
Step(vel) ==
  <<TruncDiv(vel[1] * Unit, VelUnit), TruncDiv(vel[2] * Unit, VelUnit)>>

RECURSIVE SeqSum(_)
SeqSum(s) == IF s = <<>> THEN 0 ELSE Head(s) + SeqSum(Tail(s))

\* s without the elements whose index is in `gone`.
RECURSIVE Without(_, _, _)
Without(s, gone, i) ==
  IF i > Len(s) THEN <<>>
  ELSE IF i \in gone THEN Without(s, gone, i + 1)
  ELSE <<s[i]>> \o Without(s, gone, i + 1)

\* -------------------------------------------------------------------- state
VARIABLES
  starships,   \* Seq of [pos, vel, rot, scale]: the Starship entities
  bullets,     \* Seq of [start, pos, vel, scale]: the Bullet entities
  asteroids,   \* Seq of [size, pos, vel, scale]: the Asteroid entities
  keys,        \* Input<KeyCode>: the keys held in this frame
  events,      \* the KeyboardInput events delivered in this frame
  phase,       \* "idle" between frames, "run" while the systems of a frame run
  done,        \* the systems that have run in this frame
  cmds,        \* per system, the Commands it queued in this frame
  ticksLeft,   \* frames the run may still take (-1: no limit)
  shotsLeft,   \* Space presses the input feed may still deliver
  thrustLeft,  \* frames in which Up may still be held
  rotLeft,     \* frames in which Left or Right may still be held
  gameState,   \* State<GameState>: "Splash", "Menu" or "Game"
  nextGame,    \* NextState<GameState>: the state to enter, or "None"
  menuState,   \* State<MenuState>: the menu screen shown, or "Disabled"
  nextMenu,    \* NextState<MenuState>: the screen to enter, or "None"
  quality,     \* the DisplayQuality resource
  volume,      \* the Volume resource
  selected     \* the values of the option buttons that carry SelectedOption

world == <<starships, bullets, asteroids>>
input == <<keys, events>>
budget == <<ticksLeft, shotsLeft, thrustLeft, rotLeft>>
states == <<gameState, nextGame, menuState, nextMenu>>
settings == <<quality, volume, selected>>
app == <<states, settings>>
vars == <<starships, bullets, asteroids, keys, events, phase, done, cmds,
          ticksLeft, shotsLeft, thrustLeft, rotLeft, gameState, nextGame,
          menuState, nextMenu, quality, volume, selected>>

\* The systems GamePlugin::build registers that change or read simulation state.
\* (sync_translate_transform and sync_starship_rotation_transform write only
\* Transform.translation and Transform.rotation, which no system reads.)
Systems ==
  {"keyboard_events", "update_position", "decelerate_starship", "remove_bullet",
   "detect_starship_asteroid_collision", "detect_bullet_asteroid_collision",
   "sync_asteroid_scale_transform"}

\* The systems that take Commands.
CommandSystems ==
  {"keyboard_events", "remove_bullet", "detect_starship_asteroid_collision",
   "detect_bullet_asteroid_collision"}

NoCmds == [s \in CommandSystems |-> <<>>]

\* commands.entity(e).despawn() for the entity at index idx of its kind.
Despawn(kind, idx) == [op |-> "despawn", kind |-> kind, idx |-> idx, ent |-> <<>>]
\* commands.spawn(..) of an entity of the kind.
Spawn(kind, ent) == [op |-> "spawn", kind |-> kind, idx |-> 0, ent |-> <<ent>>]

PressedSpace == [state |-> "Pressed", key |-> "Space"]
ReleasedSpace == [state |-> "Released", key |-> "Space"]
PressedOther == [state |-> "Pressed", key |-> "Other"]

\* The event queues a frame may deliver.
EventSeqs ==
  {<<>>, <<PressedSpace>>, <<PressedSpace, ReleasedSpace, PressedSpace>>,
   <<ReleasedSpace, PressedOther>>}

Presses(evs) == Cardinality({i \in DOMAIN evs : evs[i] = PressedSpace})

\* Values get_random_point().normalize() * ASTEROID_VELOCITY takes.
RandomVelocities == {<<0, 0 - ASTEROID_VELOCITY>>, <<ASTEROID_VELOCITY, 0>>}

\* The entities setup_game spawns.
NewStarship ==
  [pos |-> <<0, 0>>, vel |-> <<0, 0>>, rot |-> 0, scale |-> StarshipScale]
NewAsteroid(size, pos, vel) ==
  [size |-> size, pos |-> pos, vel |-> vel, scale |-> DefaultScale]
\* A bullet whose spawn origin is the viewport's centre.
NewBullet_StartAtOrigin(pos, vel) ==
  [start |-> <<0, 0>>, pos |-> pos, vel |-> vel, scale |-> BulletScale]
NewBullet(pos, vel) ==
  [start |-> pos, pos |-> pos, vel |-> vel, scale |-> BulletScale]

\* ------------------------------------------------------------------ systems
\* A wraparound that re-enters at the viewport's edge, not half a scale outside.
WrapAxis_ToEdge(p, lo, hi, half_scale) ==
  IF p > hi + half_scale THEN lo
  ELSE IF p < lo - half_scale THEN hi
  ELSE p

\* update_position, one axis: the wraparound of lines 419-429.
WrapAxis(p, lo, hi, half_scale) ==
  IF p > hi + half_scale THEN lo - half_scale
  ELSE IF p < lo - half_scale THEN hi + half_scale
  ELSE p

\* An update that adds the velocity and never wraps.
UpdatePosition_NoWrap(e) == [e EXCEPT !.pos = VAdd(e.pos, Step(e.vel))]

\* update_position for one entity: position + velocity, wrapped on each axis.
UpdatePosition(e) ==
  LET new_position == VAdd(e.pos, Step(e.vel))
      half_scale == e.scale \div 2
  IN  [e EXCEPT !.pos =
         <<WrapAxis(new_position[1], VIEWPORT_MIN_X, VIEWPORT_MAX_X, half_scale),
           WrapAxis(new_position[2], VIEWPORT_MIN_Y, VIEWPORT_MAX_Y, half_scale)>>]

\* A rotation with the two keys swapped.
Rotate_Swapped(rot, held) ==
  IF "Left" \in held THEN rot - 1
  ELSE IF "Right" \in held THEN rot + 1
  ELSE rot

\* A rotation in which Left and Right held together cancel.
Rotate_Cancelling(rot, held) ==
  (IF "Left" \in held THEN rot + 1 ELSE rot) - (IF "Right" \in held THEN 1 ELSE 0)

\* keyboard_events, the rotation of lines 444-448.
Rotate(rot, held) ==
  IF "Left" \in held THEN rot + 1
  ELSE IF "Right" \in held THEN rot - 1
  ELSE rot

\* A thrust without the clamp to STARSHIP_MAX_VELOCITY.
Thrust_NoClamp(vel, rot, held) ==
  IF "Up" \in held
  THEN LET d == Direction(rot)
       IN  VAdd(vel, <<TruncDiv(d[1], AccelDivisor), TruncDiv(d[2], AccelDivisor)>>)
  ELSE vel

\* keyboard_events, the thrust of lines 450-456 (rot is already rotated).
Thrust(vel, rot, held) ==
  IF "Up" \in held
  THEN LET d == Direction(rot)
           v == VAdd(vel, <<TruncDiv(d[1], AccelDivisor), TruncDiv(d[2], AccelDivisor)>>)
       IN  IF LenSq(v) > STARSHIP_MAX_VELOCITY * STARSHIP_MAX_VELOCITY
           THEN ScaleTo(v, STARSHIP_MAX_VELOCITY)
           ELSE v
  ELSE vel

\* The velocity keyboard_events gives a bullet: direction().normalize() * BULLET_VELOCITY.
BulletVelocity(rot) ==
  LET n == ScaleTo(Direction(rot), VelUnit)
  IN  <<n[1] * BULLET_VELOCITY, n[2] * BULLET_VELOCITY>>

\* A fire that spawns a bullet for every Space event, releases included.
RECURSIVE FireCommands_AnySpaceEvent(_, _)
FireCommands_AnySpaceEvent(evs, ship) ==
  IF evs = <<>> THEN <<>>
  ELSE (IF Head(evs).key = "Space"
        THEN <<Spawn("bullet", NewBullet(ship.pos, BulletVelocity(ship.rot)))>>
        ELSE <<>>)
       \o FireCommands_AnySpaceEvent(Tail(evs), ship)

\* keyboard_events, lines 458-480: one spawn per Pressed Space event, in order.
RECURSIVE FireCommands(_, _)
FireCommands(evs, ship) ==
  IF evs = <<>> THEN <<>>
  ELSE (IF Head(evs).state = "Pressed" /\ Head(evs).key = "Space"
        THEN <<Spawn("bullet", NewBullet(ship.pos, BulletVelocity(ship.rot)))>>
        ELSE <<>>)
       \o FireCommands(Tail(evs), ship)

\* A deceleration that leaves the velocity as it is.
Decelerate_Never(ship, held) == ship

\* A deceleration that also applies while Up is held.
Decelerate_Always(ship, held) ==
  [ship EXCEPT !.vel = <<TruncDiv(ship.vel[1] * DecayPercent, 100),
                          TruncDiv(ship.vel[2] * DecayPercent, 100)>>]

\* decelerate_starship for one starship.
Decelerate(ship, held) ==
  IF "Up" \notin held
  THEN [ship EXCEPT !.vel = <<TruncDiv(ship.vel[1] * DecayPercent, 100),
                              TruncDiv(ship.vel[2] * DecayPercent, 100)>>]
  ELSE ship

\* remove_bullet's test for one bullet.
OutOfRange(b) == LenSq(VSub(b.start, b.pos)) > BULLET_DISTANCE * BULLET_DISTANCE

\* distance < reach, for a reach >= 0, compared as squares.
Within(p, q, reach) == LenSq(VSub(p, q)) < reach * reach

\* A detector that quarters the asteroid's scale as it does the starship's.
StarshipHits_QuarterBoth(ship, a) ==
  Within(ship.pos, a.pos, ship.scale \div 4 + a.scale \div 4)

\* detect_starship_asteroid_collision's test:
\* distance < starship_size / 4 + asteroid_size / 2 (every scale the program
\* uses divides exactly at 1/Unit).
StarshipHits(ship, a) ==
  Within(ship.pos, a.pos, ship.scale \div 4 + a.scale \div 2)

\* A detector that takes half of the asteroid's radius, not its radius.
BulletHits_HalfRadius(b, a) ==
  Within(b.pos, a.pos, b.scale \div 2 + a.scale \div 4)

\* detect_bullet_asteroid_collision's test:
\* distance < bullet_size / 2 + asteroid_size / 2.
BulletHits(b, a) ==
  Within(b.pos, a.pos, b.scale \div 2 + a.scale \div 2)

\* The (bullet, asteroid) index pairs detect_bullet_asteroid_collision finds,
\* in the order of its nested loops.
RECURSIVE HitPairs(_, _, _, _)
HitPairs(bs, as, i, j) ==
  IF i > Len(bs) THEN <<>>
  ELSE IF j > Len(as) THEN HitPairs(bs, as, i + 1, 1)
  ELSE (IF BulletHits(bs[i], as[j]) THEN <<<<i, j>>>> ELSE <<>>)
       \o HitPairs(bs, as, i, j + 1)

\* The commands of one hit (lines 543-571): two despawns, then two spawns of
\* the next size at the asteroid's position unless the asteroid was Small.
\* v1 and v2 are the two random velocities.
HitCommands(pair, as, v1, v2) ==
  LET a == as[pair[2]]
      next == AsteroidNewSize(a.size)
  IN  <<Despawn("bullet", pair[1]), Despawn("asteroid", pair[2])>>
      \o (IF next = "None" THEN <<>>
          ELSE <<Spawn("asteroid", NewAsteroid(next, a.pos, v1)),
                 Spawn("asteroid", NewAsteroid(next, a.pos, v2))>>)

\* How many of the first k hits spawn asteroids.
RECURSIVE Splits(_, _, _)
Splits(pairs, as, k) ==
  IF k = 0 THEN 0
  ELSE Splits(pairs, as, k - 1)
       + (IF AsteroidNewSize(as[pairs[k][2]].size) = "None" THEN 0 ELSE 1)

\* The commands of all hits, in order; rnd holds the random velocities in the
\* order get_random_point() returned them, two for each hit that splits.
RECURSIVE AllHitCommands(_, _, _, _)
AllHitCommands(pairs, as, rnd, k) ==
  IF k > Len(pairs) THEN <<>>
  ELSE LET n == Splits(pairs, as, k)
           split == AsteroidNewSize(as[pairs[k][2]].size) # "None"
           v1 == IF split THEN rnd[2 * n - 1] ELSE <<0, 0>>
           v2 == IF split THEN rnd[2 * n] ELSE <<0, 0>>
       IN  HitCommands(pairs[k], as, v1, v2)
           \o AllHitCommands(pairs, as, rnd, k + 1)

\* sync_asteroid_scale_transform for one asteroid.
SyncScale(a) == [a EXCEPT !.scale = AsteroidScale(a.size)]

\* ------------------------------------------------------------------ actions
Map(f(_), s) == [i \in DOMAIN s |-> f(s[i])]

\* Input<KeyCode>: Space is held from a Pressed Space event to the next
\* Released Space event.
RECURSIVE SpaceHeld(_, _)
SpaceHeld(evs, was) ==
  IF evs = <<>> THEN was
  ELSE SpaceHeld(Tail(evs),
                 IF Head(evs).key = "Space" THEN Head(evs).state = "Pressed" ELSE was)

\* The host delivers the input of a frame: the keys held and the key events.
\* The GameState transition set in the frame before has been applied by then.
TickStart ==
  /\ phase = "idle"
  /\ ticksLeft # 0
  /\ nextGame = "None"
  /\ \E held \in SUBSET {"Left", "Right", "Up"}, evs \in EventSeqs :
       /\ "Up" \in held => thrustLeft > 0
       /\ held \cap {"Left", "Right"} # {} => rotLeft > 0
       /\ Presses(evs) <= shotsLeft
       /\ keys' = held \cup (IF SpaceHeld(evs, "Space" \in keys) THEN {"Space"} ELSE {})
       /\ events' = evs
       /\ shotsLeft' = shotsLeft - Presses(evs)
       /\ thrustLeft' = IF "Up" \in held THEN thrustLeft - 1 ELSE thrustLeft
       /\ rotLeft' = IF held \cap {"Left", "Right"} # {} THEN rotLeft - 1 ELSE rotLeft
  /\ ticksLeft' = IF ticksLeft > 0 THEN ticksLeft - 1 ELSE ticksLeft
  /\ phase' = "run"
  /\ done' = {}
  /\ UNCHANGED <<world, cmds, app>>

Ready(sys) == phase = "run" /\ sys \notin done
Ran(sys) == done' = done \cup {sys} /\ UNCHANGED <<phase, input, budget, app>>

\* keyboard_events: the first starship of the query drains the event reader.
KeyboardShip(ship) ==
  LET rot == Rotate(ship.rot, keys)
  IN  [ship EXCEPT !.rot = rot, !.vel = Thrust(ship.vel, rot, keys)]

\* A keyboard_events whose event loop also runs without a starship and then
\* fires from the centre.
keyboard_events_Unmanned ==
  /\ Ready("keyboard_events")
  /\ starships' = Map(KeyboardShip, starships)
  /\ cmds' = [cmds EXCEPT !["keyboard_events"] =
                FireCommands(events, IF starships = <<>> THEN NewStarship
                                     ELSE KeyboardShip(starships[1]))]
  /\ Ran("keyboard_events")
  /\ UNCHANGED <<bullets, asteroids>>

keyboard_events ==
  /\ Ready("keyboard_events")
  /\ starships' = Map(KeyboardShip, starships)
  /\ cmds' = [cmds EXCEPT !["keyboard_events"] =
                IF starships = <<>> THEN <<>>
                ELSE FireCommands(events, KeyboardShip(starships[1]))]
  /\ Ran("keyboard_events")
  /\ UNCHANGED <<bullets, asteroids>>

update_position ==
  /\ Ready("update_position")
  /\ starships' = Map(UpdatePosition, starships)
  /\ bullets' = Map(UpdatePosition, bullets)
  /\ asteroids' = Map(UpdatePosition, asteroids)
  /\ Ran("update_position")
  /\ UNCHANGED cmds

decelerate_starship ==
  /\ Ready("decelerate_starship")
  /\ starships' = [i \in DOMAIN starships |-> Decelerate(starships[i], keys)]
  /\ Ran("decelerate_starship")
  /\ UNCHANGED <<bullets, asteroids, cmds>>

RECURSIVE RemoveCommands(_, _)
RemoveCommands(bs, i) ==
  IF i > Len(bs) THEN <<>>
  ELSE (IF OutOfRange(bs[i]) THEN <<Despawn("bullet", i)>> ELSE <<>>)
       \o RemoveCommands(bs, i + 1)

remove_bullet ==
  /\ Ready("remove_bullet")
  /\ cmds' = [cmds EXCEPT !["remove_bullet"] = RemoveCommands(bullets, 1)]
  /\ Ran("remove_bullet")
  /\ UNCHANGED world

\* A collision that despawns the asteroid together with the starship.
RECURSIVE StarshipCommands_BothDespawned(_, _, _, _)
StarshipCommands_BothDespawned(ss, as, i, j) ==
  IF i > Len(ss) THEN <<>>
  ELSE IF j > Len(as) THEN StarshipCommands_BothDespawned(ss, as, i + 1, 1)
  ELSE (IF StarshipHits(ss[i], as[j])
        THEN <<Despawn("starship", i), Despawn("asteroid", j)>> ELSE <<>>)
       \o StarshipCommands_BothDespawned(ss, as, i, j + 1)

\* One despawn of the starship per asteroid it overlaps.
RECURSIVE StarshipCommands(_, _, _, _)
StarshipCommands(ss, as, i, j) ==
  IF i > Len(ss) THEN <<>>
  ELSE IF j > Len(as) THEN StarshipCommands(ss, as, i + 1, 1)
  ELSE (IF StarshipHits(ss[i], as[j]) THEN <<Despawn("starship", i)>> ELSE <<>>)
       \o StarshipCommands(ss, as, i, j + 1)

detect_starship_asteroid_collision ==
  /\ Ready("detect_starship_asteroid_collision")
  /\ cmds' = [cmds EXCEPT !["detect_starship_asteroid_collision"] =
                StarshipCommands(starships, asteroids, 1, 1)]
  /\ Ran("detect_starship_asteroid_collision")
  /\ UNCHANGED world

detect_bullet_asteroid_collision ==
  /\ Ready("detect_bullet_asteroid_collision")
  /\ LET pairs == HitPairs(bullets, asteroids, 1, 1)
     IN  \E rnd \in [1 .. 2 * Splits(pairs, asteroids, Len(pairs)) -> RandomVelocities] :
           cmds' = [cmds EXCEPT !["detect_bullet_asteroid_collision"] =
                      AllHitCommands(pairs, asteroids, rnd, 1)]
  /\ Ran("detect_bullet_asteroid_collision")
  /\ UNCHANGED world

sync_asteroid_scale_transform ==
  /\ Ready("sync_asteroid_scale_transform")
  /\ asteroids' = Map(SyncScale, asteroids)
  /\ Ran("sync_asteroid_scale_transform")
  /\ UNCHANGED <<starships, bullets, cmds>>

\* apply_system_buffers: the queued commands take effect.  A despawn of an
\* entity that is already gone does nothing; spawned entities are appended.
Queue == cmds["keyboard_events"] \o cmds["remove_bullet"]
         \o cmds["detect_starship_asteroid_collision"]
         \o cmds["detect_bullet_asteroid_collision"]

Despawned(q, kind) ==
  {q[k].idx : k \in {k \in DOMAIN q : q[k].op = "despawn" /\ q[k].kind = kind}}

RECURSIVE Spawned(_, _)
Spawned(q, kind) ==
  IF q = <<>> THEN <<>>
  ELSE (IF Head(q).op = "spawn" /\ Head(q).kind = kind THEN Head(q).ent ELSE <<>>)
       \o Spawned(Tail(q), kind)

Apply(ents, q, kind) == Without(ents, Despawned(q, kind), 1) \o Spawned(q, kind)

\* A flush that may come before every system of the frame has run.
FlushReady_Early == "keyboard_events" \in done

\* apply_system_buffers runs after the systems of the frame (CoreSet::Update).
FlushReady == done = Systems

Flush ==
  /\ phase = "run"
  /\ FlushReady
  /\ starships' = Apply(starships, Queue, "starship")
  /\ bullets' = Apply(bullets, Queue, "bullet")
  /\ asteroids' = Apply(asteroids, Queue, "asteroid")
  /\ cmds' = NoCmds
  /\ phase' = "idle"
  /\ done' = {}
  /\ UNCHANGED <<input, budget, app>>

Next ==
  \/ TickStart
  \/ keyboard_events
  \/ update_position
  \/ decelerate_starship
  \/ remove_bullet
  \/ detect_starship_asteroid_collision
  \/ detect_bullet_asteroid_collision
  \/ sync_asteroid_scale_transform
  \/ Flush

\* ----------------------------------------------------------- initial states
\* Outcomes of setup_game's twelve random draws: per asteroid, a position and
\* a velocity.
NearUp == <<<<0, 400>>, <<0, 0 - ASTEROID_VELOCITY>>>>
NearRight == <<<<200, 350>>, <<ASTEROID_VELOCITY, 0>>>>
FarA == <<<<3000, 2000>>, <<ASTEROID_VELOCITY, 0>>>>
FarB == <<<<0 - 3000, 0 - 2000>>, <<0, 0 - ASTEROID_VELOCITY>>>>

SetupDraws ==
  { <<FarA, FarB, FarA, FarB, FarA, FarB>>,
    <<NearUp, FarA, FarB, FarA, FarB, FarA>>,
    <<NearUp, NearRight, FarA, FarB, FarA, FarB>> }

\* The states and resources while the game runs: GameState::Game entered from
\* the menu, no transition pending, the settings as main inserts them.
InGame ==
  /\ gameState = "Game"
  /\ nextGame = "None"
  /\ menuState = "Disabled"
  /\ nextMenu = "None"
  /\ quality = "Medium"
  /\ volume = 7
  /\ selected = {}

\* The quiet parts of every initial state: no frame in progress, no input.
Quiet ==
  /\ keys = {}
  /\ events = <<>>
  /\ phase = "idle"
  /\ done = {}
  /\ cmds = NoCmds

\* The world setup_game builds on entering GameState::Game.
Init ==
  /\ Quiet
  /\ InGame
  /\ starships = <<NewStarship>>
  /\ bullets = <<>>
  /\ \E draws \in SetupDraws :
       asteroids = [i \in 1 .. InitialAsteroids |->
                      NewAsteroid("Big", draws[i][1], draws[i][2])]
  /\ ticksLeft = MaxTicks
  /\ shotsLeft = MaxShots
  /\ thrustLeft = 0
  /\ rotLeft = 0

Spec == Init /\ [][Next]_vars

\* A later state of the game: every asteroid has been shot, the starship
\* rests at the origin, turned by `rot` steps.  The player fires once and the
\* run has no frame limit.
RangeRotations == {0, 18}

InitRange ==
  /\ Quiet
  /\ InGame
  /\ \E rot \in RangeRotations : starships = <<[NewStarship EXCEPT !.rot = rot]>>
  /\ bullets = <<>>
  /\ asteroids = <<>>
  /\ ticksLeft = 0 - 1
  /\ shotsLeft = 1
  /\ thrustLeft = 0
  /\ rotLeft = 0

SpecRange == InitRange /\ [][Next]_vars

\* The host keeps driving frames.
FairRange == SpecRange /\ WF_vars(Next)

\* The two fixtures of the specification's scenarios (section 8): a starship
\* at (0,0) with rotation 0 and one stationary Big asteroid, at (50,0) or at
\* (0,0), its Transform scale synced or not yet.
FixturePoints == {<<50 * Unit, 0>>, <<0, 0>>}

InitFixture ==
  /\ Quiet
  /\ InGame
  /\ starships = <<NewStarship>>
  /\ bullets = <<>>
  /\ \E p \in FixturePoints, sc \in {DefaultScale, AsteroidScale("Big")} :
       asteroids = <<[NewAsteroid("Big", p, <<0, 0>>) EXCEPT !.scale = sc]>>
  /\ ticksLeft = MaxTicks
  /\ shotsLeft = MaxShots
  /\ thrustLeft = 0
  /\ rotLeft = 0

SpecFixture == InitFixture /\ [][Next]_vars

\* A later state of the game, near the viewport's edges: the starship rests
\* left of the right edge, turned to face -x or +x, or flies out of the lower
\* left corner; a Big asteroid leaves through the top and a Small one through
\* the right edge.
EdgeStarships ==
  { [pos |-> <<6450, 0>>, vel |-> <<0, 0>>, rot |-> 18, scale |-> StarshipScale],
    [pos |-> <<6450, 0>>, vel |-> <<0, 0>>, rot |-> 0 - 18, scale |-> StarshipScale],
    [pos |-> <<0 - 6600, 0 - 3800>>, vel |-> <<0 - 6000, 0 - 8000>>, rot |-> 0,
     scale |-> StarshipScale] }

EdgeAsteroids ==
  << [size |-> "Big", pos |-> <<0, 4090>>, vel |-> <<0, ASTEROID_VELOCITY>>,
      scale |-> AsteroidScale("Big")],
     [size |-> "Small", pos |-> <<6540, 2000>>, vel |-> <<ASTEROID_VELOCITY, 0>>,
      scale |-> AsteroidScale("Small")] >>

InitWrap ==
  /\ Quiet
  /\ InGame
  /\ \E ship \in EdgeStarships : starships = <<ship>>
  /\ bullets = <<>>
  /\ asteroids = EdgeAsteroids
  /\ ticksLeft = MaxTicks
  /\ shotsLeft = MaxShots
  /\ thrustLeft = 0
  /\ rotLeft = 0

SpecWrap == InitWrap /\ [][Next]_vars

\* A later state of the game: every asteroid has been shot; the starship was
\* turned to `rot` and then flew for k frames with Up held (keyboard_events
\* before update_position in each), never reaching the speed cap on the way.
Acceleration(rot) ==
  <<TruncDiv(Direction(rot)[1], AccelDivisor), TruncDiv(Direction(rot)[2], AccelDivisor)>>

FlightVelocity(rot, k) == <<k * Acceleration(rot)[1], k * Acceleration(rot)[2]>>

\* One coordinate after k such frames: the sum of the steps of 1..k times `a`.
RECURSIVE FlightSum(_, _)
FlightSum(a, k) ==
  IF k = 0 THEN 0 ELSE FlightSum(a, k - 1) + TruncDiv(k * a * Unit, VelUnit)

FlightPosition(rot, k) ==
  <<FlightSum(Acceleration(rot)[1], k), FlightSum(Acceleration(rot)[2], k)>>

FlightStarts ==
  { [pos |-> FlightPosition(f[1], f[2]), vel |-> FlightVelocity(f[1], f[2]),
     rot |-> f[1], scale |-> StarshipScale] :
      f \in {<<0, 0>>, <<0, 1>>, <<0, 49>>, <<0, 50>>, <<9, 50>>, <<0 - 18, 50>>} }

InitFlight ==
  /\ Quiet
  /\ InGame
  /\ \E ship \in FlightStarts : starships = <<ship>>
  /\ bullets = <<>>
  /\ asteroids = <<>>
  /\ ticksLeft = FlightTicks
  /\ shotsLeft = 0
  /\ thrustLeft = MaxThrust
  /\ rotLeft = MaxRot

SpecFlight == InitFlight /\ [][Next]_vars

\* The same starships in flight, with one shot to fire and a turn to make.
InitFire ==
  /\ Quiet
  /\ InGame
  /\ \E ship \in FlightStarts : starships = <<ship>>
  /\ bullets = <<>>
  /\ asteroids = <<>>
  /\ ticksLeft = FlightTicks
  /\ shotsLeft = 1
  /\ thrustLeft = 0
  /\ rotLeft = MaxRot

SpecFire == InitFire /\ [][Next]_vars

\* The application from its start: GameState::Splash, nothing spawned.  The
\* simulation systems are registered without a run condition, so frames run in
\* every GameState.
\* A timer that also ends the game and asks for the menu again, as the
\* unregistered system game would.
countdown_OrGameTimer ==
  /\ phase = "idle"
  /\ gameState \in {"Splash", "Game"}
  /\ nextGame = "None"
  /\ nextGame' = "Menu"
  /\ UNCHANGED <<world, input, budget, phase, done, cmds, gameState, menuState,
                 nextMenu, settings>>

\* countdown: the splash timer has finished, so the system asks for
\* GameState::Menu.
countdown ==
  /\ phase = "idle"
  /\ gameState = "Splash"
  /\ nextGame = "None"
  /\ nextGame' = "Menu"
  /\ UNCHANGED <<world, input, budget, phase, done, cmds, gameState, menuState,
                 nextMenu, settings>>

\* No state transition is waiting to be applied.
NoPending == nextGame = "None" /\ nextMenu = "None"

\* A Play button that can also be clicked while the game runs.
CanPlay_Always == TRUE

\* A Play button that starts the game again once the starship is gone.
CanPlay_AfterCrash ==
  \/ (gameState = "Menu" /\ menuState = "Main")
  \/ (gameState = "Game" /\ starships = <<>>)

\* menu_action runs in OnUpdate(GameState::Menu) only, and the Play button is
\* on the main menu screen.
CanPlay == gameState = "Menu" /\ menuState = "Main"

\* An asteroid setup that makes the first asteroid Medium.
SetupAsteroids_FirstMedium(draws) ==
  [i \in 1 .. InitialAsteroids |->
     NewAsteroid(IF i = 1 THEN "Medium" ELSE "Big", draws[i][1], draws[i][2])]

\* setup_game's loop: six Big asteroids at the drawn positions and velocities.
SetupAsteroids(draws) ==
  [i \in 1 .. InitialAsteroids |-> NewAsteroid("Big", draws[i][1], draws[i][2])]

\* A Play button that leaves the menu state as it is.
Play_MenuStays ==
  /\ phase = "idle"
  /\ NoPending
  /\ CanPlay
  /\ nextGame' = "Game"
  /\ UNCHANGED <<world, input, budget, phase, done, cmds, gameState, menuState,
                 nextMenu, settings>>

\* menu_action on a click of Play: it asks for GameState::Game and for
\* MenuState::Disabled in the same call.
Play ==
  /\ phase = "idle"
  /\ NoPending
  /\ CanPlay
  /\ nextGame' = "Game"
  /\ nextMenu' = "Disabled"
  /\ UNCHANGED <<world, input, budget, phase, done, cmds, gameState, menuState,
                 settings>>

\* A setup_game registered on entering GameState::Menu instead.
EnterGameState_SetupOnMenu(to) ==
  /\ nextMenu' = IF to = "Menu" THEN "Main" ELSE nextMenu
  /\ IF to = "Menu"
       THEN /\ starships' = starships \o <<NewStarship>>
            /\ \E draws \in SetupDraws : asteroids' = asteroids \o SetupAsteroids(draws)
       ELSE UNCHANGED <<starships, asteroids>>

\* The OnEnter schedules of GameState: menu_setup asks for MenuState::Main on
\* entering Menu, setup_game spawns the starship and the asteroids on entering
\* Game.
EnterGameState(to) ==
  /\ nextMenu' = IF to = "Menu" THEN "Main" ELSE nextMenu
  /\ IF to = "Game"
       THEN /\ starships' = starships \o <<NewStarship>>
            /\ \E draws \in SetupDraws : asteroids' = asteroids \o SetupAsteroids(draws)
       ELSE UNCHANGED <<starships, asteroids>>

\* apply_state_transition::<GameState>: the requested state becomes the current
\* one and its OnEnter schedule runs.
apply_game_state ==
  /\ phase = "idle"
  /\ nextGame # "None"
  /\ gameState' = nextGame
  /\ nextGame' = "None"
  /\ EnterGameState(nextGame)
  /\ UNCHANGED <<bullets, input, budget, phase, done, cmds, menuState, settings>>

Qualities == {"Low", "Medium", "High"}
Volumes == 0 .. 9

\* The option buttons a settings screen spawns with SelectedOption: the ones
\* whose value equals the resource.  The other screens have no option button.
SelectedOn(screen) ==
  IF screen = "SettingsDisplay" THEN {q \in Qualities : q = quality}
  ELSE IF screen = "SettingsSound" THEN {v \in Volumes : v = volume}
  ELSE {}

\* apply_state_transition::<MenuState>: OnExit despawns the screen that was
\* shown, OnEnter spawns the screen of the requested state.
apply_menu_state ==
  /\ phase = "idle"
  /\ nextMenu # "None"
  /\ menuState' = nextMenu
  /\ nextMenu' = "None"
  /\ selected' = SelectedOn(nextMenu)
  /\ UNCHANGED <<world, input, budget, phase, done, cmds, gameState, nextGame,
                 quality, volume>>

\* The MenuButtonAction buttons of each screen other than Play and Quit, with
\* the MenuState menu_action asks for on a click.
MenuButtons(screen) ==
  IF screen = "Main" THEN {"Settings"}
  ELSE IF screen = "Settings" THEN {"SettingsDisplay", "SettingsSound", "Main"}
  ELSE IF screen \in {"SettingsDisplay", "SettingsSound"} THEN {"Settings"}
  ELSE {}

\* menu_action on a click of a button that changes the menu screen.
menu_action ==
  /\ phase = "idle"
  /\ NoPending
  /\ gameState = "Menu"
  /\ \E to \in MenuButtons(menuState) : nextMenu' = to
  /\ UNCHANGED <<world, input, budget, phase, done, cmds, gameState, nextGame,
                 menuState, settings>>

\* The setting resource of the screen shown.
Setting == IF menuState = "SettingsDisplay" THEN quality ELSE volume

\* The values of the option buttons of the screen shown.
Options ==
  IF menuState = "SettingsDisplay" THEN Qualities
  ELSE IF menuState = "SettingsSound" THEN Volumes
  ELSE {}

\* A setting_button that marks the clicked button and leaves the old mark.
Reselect_KeepPrevious(value) == selected \cup {value}

\* setting_button's commands, applied at the end of the frame: SelectedOption
\* is removed from the one button that carried it and inserted on the clicked
\* button.
Reselect(value) == (selected \ {CHOOSE previous \in selected : TRUE}) \cup {value}

\* The body of setting_button's loop for a clicked option button: the new
\* value of the resource and the new marks.  Nothing changes unless the
\* button's value differs from the resource.
Clicked(value) ==
  IF value # Setting THEN <<value, Reselect(value)>> ELSE <<Setting, selected>>

\* setting_button::<DisplayQuality> and setting_button::<Volume> on a click of
\* an option button of the screen shown.
setting_button ==
  /\ phase = "idle"
  /\ NoPending
  /\ \E value \in Options :
       /\ quality' = IF menuState = "SettingsDisplay" THEN Clicked(value)[1] ELSE quality
       /\ volume' = IF menuState = "SettingsSound" THEN Clicked(value)[1] ELSE volume
       /\ selected' = Clicked(value)[2]
  /\ UNCHANGED <<world, input, budget, phase, done, cmds, states>>

InitApp ==
  /\ Quiet
  /\ gameState = "Splash"
  /\ nextGame = "None"
  /\ menuState = "Disabled"
  /\ nextMenu = "None"
  /\ quality = "Medium"
  /\ volume = 7
  /\ selected = {}
  /\ starships = <<>>
  /\ bullets = <<>>
  /\ asteroids = <<>>
  /\ ticksLeft = MaxTicks
  /\ shotsLeft = MaxShots
  /\ thrustLeft = 0
  /\ rotLeft = 0

NextApp ==
  \/ countdown
  \/ apply_game_state
  \/ apply_menu_state
  \/ Play
  \/ Next

SpecApp == InitApp /\ [][NextApp]_vars

\* The menu on its own: every button of every screen may be clicked, and no
\* frame of the simulation is followed.
NextMenu ==
  \/ countdown
  \/ apply_game_state
  \/ apply_menu_state
  \/ Play
  \/ menu_action
  \/ setting_button

SpecMenu == InitApp /\ [][NextMenu]_vars

\* A later state of the game: the starship rests at the origin with a Big
\* asteroid closing in from above, a second Big asteroid is about to leave
\* through the top, and a bullet fired earlier from further down is about to
\* reach its range.
PersistAsteroids ==
  << [size |-> "Big", pos |-> <<0, 400>>, vel |-> <<0, 0 - ASTEROID_VELOCITY>>,
      scale |-> AsteroidScale("Big")],
     [size |-> "Big", pos |-> <<0, 4090>>, vel |-> <<0, ASTEROID_VELOCITY>>,
      scale |-> AsteroidScale("Big")] >>

PersistBullet ==
  [start |-> <<0, 0 - 3000>>, pos |-> <<0, 2750>>,
   vel |-> <<0, BULLET_VELOCITY * VelUnit>>, scale |-> BulletScale]

InitPersist ==
  /\ Quiet
  /\ InGame
  /\ starships = <<NewStarship>>
  /\ bullets = <<PersistBullet>>
  /\ asteroids = PersistAsteroids
  /\ ticksLeft = MaxTicks
  /\ shotsLeft = MaxShots
  /\ thrustLeft = 0
  /\ rotLeft = 0

SpecPersist == InitPersist /\ [][Next]_vars

\* A later state of the game: the starship rests at the origin and a Big
\* asteroid from above already overlaps it, so the starship is despawned at
\* the end of the first frame; the player keeps turning, thrusting and firing.
InitWreck ==
  /\ Quiet
  /\ InGame
  /\ starships = <<NewStarship>>
  /\ bullets = <<>>
  /\ asteroids = <<PersistAsteroids[1]>>
  /\ ticksLeft = MaxTicks
  /\ shotsLeft = 1
  /\ thrustLeft = MaxThrust
  /\ rotLeft = MaxRot

SpecWreck == InitWreck /\ [][Next]_vars

\* ------------------------------------------------------------------- claims
\* The commands detect_bullet_asteroid_collision queued in this frame.
HitQueue == cmds["detect_bullet_asteroid_collision"]

\* The spawn commands that belong to the hit whose asteroid despawn is at
\* index k of q: the (at most two) spawns that follow it directly.
ChildrenAt(q, k) == {m \in {k + 1, k + 2} \cap DOMAIN q : q[m].op = "spawn"}

\* All <<hit, spawn>> index pairs of q for the asteroid at index j.
ChildrenOf(q, j) ==
  {<<k, m>> \in (DOMAIN q) \X (DOMAIN q) :
     q[k] = Despawn("asteroid", j) /\ m \in ChildrenAt(q, k)}

\* C1 (as claimed): for every asteroid a bullet hit despawns in a frame,
\* exactly 2 asteroids of the next smaller size are spawned (0 for a Small
\* one), however many bullets overlap it in that frame.
C1_TwoChildrenPerAsteroid ==
  \A j \in Despawned(HitQueue, "asteroid") :
    /\ Cardinality(ChildrenOf(HitQueue, j))
         = IF asteroids[j].size = "Small" THEN 0 ELSE 2
    /\ \A c \in ChildrenOf(HitQueue, j) :
         HitQueue[c[2]].ent[1].size = AsteroidNewSize(asteroids[j].size)

\* C2 (as claimed): a bullet is consumed by its first match, so in one frame
\* the detector pairs a bullet with at most one asteroid.
C2_OneAsteroidPerBullet ==
  \A i \in Despawned(HitQueue, "bullet") :
    Cardinality({k \in DOMAIN HitQueue : HitQueue[k] = Despawn("bullet", i)}) <= 1

\* C3 (as claimed): every bullet is eventually despawned, whatever its spawn
\* position and direction.
C3_BulletEventuallyDespawned == (bullets # <<>>) ~> (bullets = <<>>)

\* The squared distance of a bullet from its spawn origin (Bullet.start).
Travelled(b) == LenSq(VSub(b.start, b.pos))

\* C4 (as claimed): while a bullet lives, its distance from its spawn origin
\* never decreases from one step of a frame to the next, wraparound included.
C4_DistanceNeverDecreases ==
  [][(phase = "run" /\ phase' = "run") =>
       \A i \in DOMAIN bullets : Travelled(bullets'[i]) >= Travelled(bullets[i])]_vars

\* C5 (as claimed): a bullet is despawned in the frame in which its distance
\* from its spawn origin first exceeds BULLET_DISTANCE, so no bullet beyond
\* that distance is left when a frame has ended.
C5_DespawnedWhenOutOfRange ==
  phase = "idle" => \A i \in DOMAIN bullets : ~OutOfRange(bullets[i])

\* C6 (as claimed): in every frame keyboard_events runs before the kinematics
\* (update_position, decelerate_starship), which run before the two collision
\* detectors.
C6_FixedOrder ==
  /\ done \cap {"update_position", "decelerate_starship"} # {}
       => "keyboard_events" \in done
  /\ done \cap {"detect_starship_asteroid_collision",
                "detect_bullet_asteroid_collision"} # {}
       => {"update_position", "decelerate_starship"} \subseteq done

\* The step of a frame in which system sys runs.
Runs(sys) == phase = "run" /\ sys \notin done /\ sys \in done'

\* The detector paired bullet i with asteroid j: its two despawns are in q.
Paired(q, i, j) ==
  \E k \in DOMAIN q :
    /\ k + 1 \in DOMAIN q
    /\ q[k] = Despawn("bullet", i)
    /\ q[k + 1] = Despawn("asteroid", j)

SpawnCount(q, kind) == Len(Spawned(q, kind))

\* 4 * distance < reach4, compared as squares (no pair at a squared distance of
\* 10^8 or more is within any reach the program uses).
WithinQuarter(p, q, reach4) ==
  LenSq(VSub(p, q)) < 100000000 /\ 16 * LenSq(VSub(p, q)) < reach4 * reach4

Target == {j \in DOMAIN asteroids :
             asteroids[j].size = "Big" /\ asteroids[j].pos = <<50 * Unit, 0>>}

CrashQueue == cmds["detect_starship_asteroid_collision"]

Unwrapped(e) == VAdd(e.pos, Step(e.vel))

\* C10 (as claimed), for one entity before (e) and after (f) update_position:
\* a pre-update coordinate beyond a bound by more than half_scale ends at the
\* opposite bound, half_scale outside.
WrapsFromPosition(e, f) ==
  LET half_scale == e.scale \div 2
  IN  /\ e.pos[1] > VIEWPORT_MAX_X + half_scale => f.pos[1] = VIEWPORT_MIN_X - half_scale
      /\ e.pos[1] < VIEWPORT_MIN_X - half_scale => f.pos[1] = VIEWPORT_MAX_X + half_scale
      /\ e.pos[2] > VIEWPORT_MAX_Y + half_scale => f.pos[2] = VIEWPORT_MIN_Y - half_scale
      /\ e.pos[2] < VIEWPORT_MIN_Y - half_scale => f.pos[2] = VIEWPORT_MAX_Y + half_scale

\* C10 (amended): the same for the coordinate after the velocity was added.
WrapsFromSum(e, f) ==
  LET half_scale == e.scale \div 2
      new == Unwrapped(e)
  IN  /\ new[1] > VIEWPORT_MAX_X + half_scale => f.pos[1] = VIEWPORT_MIN_X - half_scale
      /\ new[1] < VIEWPORT_MIN_X - half_scale => f.pos[1] = VIEWPORT_MAX_X + half_scale
      /\ new[2] > VIEWPORT_MAX_Y + half_scale => f.pos[2] = VIEWPORT_MIN_Y - half_scale
      /\ new[2] < VIEWPORT_MIN_Y - half_scale => f.pos[2] = VIEWPORT_MAX_Y + half_scale

\* C10 (as claimed): for every entity and every run of update_position, if the
\* pre-update X exceeded VIEWPORT_MAX_X + half_scale then the post-update X is
\* VIEWPORT_MIN_X - half_scale, and so for the three other bounds.
C10_WrapsFromPreUpdate ==
  [][Runs("update_position") =>
       /\ \A i \in DOMAIN starships : WrapsFromPosition(starships[i], starships'[i])
       /\ \A i \in DOMAIN bullets : WrapsFromPosition(bullets[i], bullets'[i])
       /\ \A i \in DOMAIN asteroids : WrapsFromPosition(asteroids[i], asteroids'[i])]_vars

\* C10 (amended): for every entity and every run of update_position, if the
\* pre-update X plus the velocity's X exceeded VIEWPORT_MAX_X + half_scale then
\* the post-update X is VIEWPORT_MIN_X - half_scale, and so for the three
\* other bounds.
C10_WrapsFromNewPosition ==
  [][Runs("update_position") =>
       /\ \A i \in DOMAIN starships : WrapsFromSum(starships[i], starships'[i])
       /\ \A i \in DOMAIN bullets : WrapsFromSum(bullets[i], bullets'[i])
       /\ \A i \in DOMAIN asteroids : WrapsFromSum(asteroids[i], asteroids'[i])]_vars

\* update_position has wrapped a bullet over the right edge, the starship over
\* the left and the lower edge, or an asteroid over the top.
C10_Witness ==
  /\ "update_position" \in done
  /\ \E i \in DOMAIN bullets :
       bullets[i].pos[1] = VIEWPORT_MIN_X - bullets[i].scale \div 2
  /\ \E j \in DOMAIN asteroids :
       asteroids[j].pos[2] <= VIEWPORT_MIN_Y - asteroids[j].scale \div 2 + 3 * Unit

\* The entity lies within the viewport widened by half its Transform scale.
InBounds(e) ==
  LET half_scale == e.scale \div 2
  IN  /\ VIEWPORT_MIN_X - half_scale <= e.pos[1]
      /\ e.pos[1] <= VIEWPORT_MAX_X + half_scale
      /\ VIEWPORT_MIN_Y - half_scale <= e.pos[2]
      /\ e.pos[2] <= VIEWPORT_MAX_Y + half_scale

AllInBounds(ents) == \A i \in DOMAIN ents : InBounds(ents[i])

\* No step other than a flush moves an entity of the sequence out of bounds.
StaysInBounds(ents, after) ==
  \A i \in DOMAIN ents : InBounds(ents[i]) => (i \in DOMAIN after /\ InBounds(after[i]))

\* After a flush only the entities it spawned may be out of bounds.
OnlySpawnedOutside(after, kind) ==
  \A i \in DOMAIN after :
    ~InBounds(after[i]) => i > Len(after) - Len(Spawned(Queue, kind))

\* C11: once update_position has run in a frame every starship, bullet and
\* asteroid lies within [MIN - half_scale, MAX + half_scale] on both axes; the
\* flush leaves only the entities it has just spawned outside, and no other
\* step moves an entity out, so an entity is outside only until its first
\* update_position.
C11_InBoundsAfterUpdate ==
  [][/\ ("update_position" \in done') =>
          (AllInBounds(starships') /\ AllInBounds(bullets') /\ AllInBounds(asteroids'))
     /\ (phase = "run" /\ phase' = "idle") =>
          (/\ OnlySpawnedOutside(starships', "starship")
           /\ OnlySpawnedOutside(bullets', "bullet")
           /\ OnlySpawnedOutside(asteroids', "asteroid"))
     /\ (phase' = phase \/ phase = "idle") =>
          (/\ StaysInBounds(starships, starships')
           /\ StaysInBounds(bullets, bullets')
           /\ StaysInBounds(asteroids, asteroids'))]_vars

\* A bullet spawned beyond its own right bound (at the starship's position)
\* has been moved by update_position and lies within its bounds.
C11_Witness ==
  /\ "update_position" \in done
  /\ \E i \in DOMAIN bullets :
       /\ bullets[i].start[1] > VIEWPORT_MAX_X + bullets[i].scale \div 2
       /\ InBounds(bullets[i])

Coasting == phase = "run" /\ phase' = "run" /\ "Up" \notin keys

\* d is 0.99 * c rounded toward zero at the velocity's resolution.
DecayedFrom(c, d) ==
  IF c >= 0
  THEN 100 * d <= DecayPercent * c /\ DecayPercent * c < 100 * (d + 1)
  ELSE 100 * d >= DecayPercent * c /\ DecayPercent * c > 100 * (d - 1)

\* C13 (as claimed): in a frame without thrust decelerate_starship makes the
\* starship's speed strictly smaller and never zero, from every velocity,
\* the initial one included.
C13_SpeedStrictlyDecreases ==
  [][(Coasting /\ Runs("decelerate_starship")) =>
       \A i \in DOMAIN starships :
         /\ LenSq(starships'[i].vel) < LenSq(starships[i].vel)
         /\ starships'[i].vel # <<0, 0>>]_vars

\* C13 (amended): in a frame without thrust the velocity is multiplied by
\* 0.99 exactly once, by decelerate_starship, and no other system changes it:
\* a nonzero speed becomes strictly smaller, a zero velocity stays zero.
C13_NonzeroSpeedDecreases ==
  [][Coasting =>
       \A i \in DOMAIN starships :
         IF Runs("decelerate_starship")
         THEN (/\ DecayedFrom(starships[i].vel[1], starships'[i].vel[1])
               /\ DecayedFrom(starships[i].vel[2], starships'[i].vel[2])
               /\ (starships[i].vel # <<0, 0>> =>
                     LenSq(starships'[i].vel) < LenSq(starships[i].vel))
               /\ (starships[i].vel = <<0, 0>> => starships'[i].vel = <<0, 0>>))
         ELSE starships'[i].vel = starships[i].vel]_vars

\* decelerate_starship has slowed a coasting starship from the cap to 9.9.
C13_Witness ==
  /\ "decelerate_starship" \in done
  /\ "Up" \notin keys
  /\ \E i \in DOMAIN starships : starships[i].vel = <<0, (STARSHIP_MAX_VELOCITY * DecayPercent) \div 100>>

\* The bullets a flush adds: those of bullets' beyond the survivors.
BulletsSpawned == Len(bullets') - Len(Without(bullets, Despawned(Queue, "bullet"), 1))

Flushes == phase = "run" /\ phase' = "idle"

\* C14 (as claimed): the number of bullets spawned in a frame equals the
\* number of Pressed Space events delivered in it, so a frame with Space
\* merely held, or with only releases and other keys, spawns none.
C14_BulletPerPress ==
  [][Flushes => BulletsSpawned = Presses(events)]_vars

\* C14 (amended): with a starship alive the number of bullets spawned in a
\* frame equals the number of Pressed Space events delivered in it, so a frame
\* with Space merely held, or with only releases and other keys, spawns none;
\* without a starship no bullet is spawned.
C14_BulletPerPressWhileAlive ==
  [][Flushes =>
       BulletsSpawned = (IF starships = <<>> THEN 0 ELSE Presses(events))]_vars

\* Every system has run in a frame with the starship alive, Space held and
\* no event delivered, after the frame in which the presses were delivered:
\* keyboard_events has queued no spawn.
C14_Witness ==
  /\ done = Systems
  /\ "Space" \in keys
  /\ events = <<>>
  /\ shotsLeft = 0
  /\ starships # <<>>
  /\ cmds["keyboard_events"] = <<>>

\* The bullets keyboard_events has queued in this frame.
FireQueue == Spawned(cmds["keyboard_events"], "bullet")

\* C15: a bullet spawned on a press of Space has the position keyboard_events
\* read from the starship, the same point as its spawn origin, and the velocity
\* BULLET_VELOCITY * (cos(r + pi/2), sin(r + pi/2)) for the rotation r as this
\* frame's rotate input has left it (along +y for r = 0); the flush appends
\* exactly these bullets.
C15_BulletSpawn ==
  [][/\ Runs("keyboard_events") =>
          \A k \in DOMAIN FireQueue' :
            LET b == FireQueue'[k]
                r == starships'[1].rot
            IN  /\ r = starships[1].rot + (IF "Left" \in keys THEN 1
                                             ELSE IF "Right" \in keys THEN 0 - 1 ELSE 0)
                /\ b.pos = starships[1].pos
                /\ b.start = starships[1].pos
                /\ b.vel = <<BULLET_VELOCITY * CosStep(r + 18), BULLET_VELOCITY * SinStep(r + 18)>>
                /\ (r = 0 => b.vel = <<0, BULLET_VELOCITY * VelUnit>>)
     /\ Flushes =>
          \A k \in DOMAIN FireQueue :
            bullets'[Len(bullets') - Len(FireQueue) + k] = FireQueue[k]]_vars

\* keyboard_events has turned a moving starship to the left in the frame of
\* the press, and the bullet it queued flies along the new direction.
C15_Witness ==
  /\ "keyboard_events" \in done
  /\ "Left" \in keys
  /\ \E k \in DOMAIN FireQueue :
       /\ FireQueue[k].vel[1] < 0
       /\ FireQueue[k].vel[2] > 0
       /\ FireQueue[k].start # <<0, 0>>

\* GameState::Game is being entered: setup_game runs.
EntersGame == gameState # "Game" /\ gameState' = "Game"

\* C16: there is never more than one starship; the count changes only when
\* the game is entered (from none to one) and at the flush of a frame in which
\* the starship-asteroid detector reported a collision (to none), so there is
\* exactly one from the start of the simulation until that frame.
C16_AtMostOneStarship ==
  [][/\ Len(starships) <= 1
     /\ Len(starships') <= 1
     /\ EntersGame => Len(starships') = 1
     /\ (Len(starships') # Len(starships)) =>
          \/ (EntersGame /\ starships = <<>>)
          \/ (Flushes /\ CrashQueue # <<>> /\ starships' = <<>>)]_vars

\* Every system has run in a frame of the game in which the detector reported
\* a collision; the one starship is still there.
C16_Witness ==
  /\ gameState = "Game"
  /\ done = Systems
  /\ CrashQueue # <<>>
  /\ Len(starships) = 1

\* C17: once the starship has been despawned in the game, no step brings a
\* starship back.
C17_DestructionIsTerminal ==
  [][(gameState = "Game" /\ starships = <<>>) => starships' = <<>>]_vars

\* The starship is gone and a later frame has delivered a press of Space to
\* keyboard_events.
C17_Witness ==
  /\ gameState = "Game"
  /\ starships = <<>>
  /\ "keyboard_events" \in done
  /\ Presses(events) > 0

\* C18: entering GameState::Game creates exactly one starship, at (0,0) with
\* zero velocity and rotation 0, exactly six asteroids, all Big, and no bullet.
C18_SetupGame ==
  [][EntersGame =>
       /\ Len(starships') = 1
       /\ starships'[1].pos = <<0, 0>>
       /\ starships'[1].vel = <<0, 0>>
       /\ starships'[1].rot = 0
       /\ Len(asteroids') = 6
       /\ \A i \in DOMAIN asteroids' : asteroids'[i].size = "Big"
       /\ bullets' = <<>>]_vars

\* The game has just been entered, after frames in Splash or Menu: no frame
\* of it has run yet.
C18_Witness ==
  /\ gameState = "Game"
  /\ phase = "idle"
  /\ ticksLeft < MaxTicks
  /\ Len(starships) = 1
  /\ Len(asteroids) = 6
  /\ \A i \in DOMAIN asteroids : asteroids[i].scale = DefaultScale

\* The velocity after a thrust along rotation rot: the sum, rescaled to
\* STARSHIP_MAX_VELOCITY if it is longer than that.
Thrusted(vel, rot) ==
  LET v == VAdd(vel, Acceleration(rot))
  IN  IF LenSq(v) > STARSHIP_MAX_VELOCITY * STARSHIP_MAX_VELOCITY
      THEN ScaleTo(v, STARSHIP_MAX_VELOCITY) ELSE v

Decayed(vel) == <<TruncDiv(vel[1] * DecayPercent, 100), TruncDiv(vel[2] * DecayPercent, 100)>>

\* C19: in every frame with a starship exactly one velocity update applies to
\* it.  With Up held keyboard_events adds direction(rotation) * acceleration
\* and clamps, and decelerate_starship leaves the velocity; without Up
\* decelerate_starship multiplies it by 0.99 and keyboard_events leaves it.  No
\* other system changes the velocity.
C19_ThrustOrDecay ==
  [][(phase = "run" /\ phase' = "run") =>
       \A i \in DOMAIN starships :
         starships'[i].vel =
           (IF Runs("keyboard_events") /\ "Up" \in keys
              THEN Thrusted(starships[i].vel, starships'[i].rot)
            ELSE IF Runs("decelerate_starship") /\ "Up" \notin keys
              THEN Decayed(starships[i].vel)
            ELSE starships[i].vel)]_vars

\* Every system has run in the first frame of a starship that rested with
\* Up held: its velocity is one acceleration, undecayed.
C19_Witness ==
  /\ done = Systems
  /\ keys = {"Up"}
  /\ ticksLeft = FlightTicks - 1
  /\ \E i \in DOMAIN starships : starships[i].vel = Acceleration(0)

\* The asteroid commands in a system's queue.
AsteroidCommands(q) == {k \in DOMAIN q : q[k].kind = "asteroid"}

\* The asteroids the bullet-asteroid detector has not reported, in order.
Unhit == Without(asteroids, Despawned(HitQueue, "asteroid"), 1)

\* C20: only a bullet-asteroid hit despawns an asteroid.  During a frame no
\* system removes an asteroid or changes its size class or velocity, and no
\* system but the bullet-asteroid detector queues a command on an asteroid; the
\* flush keeps every asteroid the detector did not report, unchanged.
C20_AsteroidPersists ==
  [][/\ (phase' = "run") =>
          (/\ Len(asteroids') = Len(asteroids)
           /\ \A j \in DOMAIN asteroids :
                /\ asteroids'[j].size = asteroids[j].size
                /\ asteroids'[j].vel = asteroids[j].vel
           /\ AsteroidCommands(cmds'["keyboard_events"]) = {}
           /\ AsteroidCommands(cmds'["remove_bullet"]) = {}
           /\ AsteroidCommands(cmds'["detect_starship_asteroid_collision"]) = {})
     /\ Flushes =>
          (/\ Len(asteroids') >= Len(Unhit)
           /\ SubSeq(asteroids', 1, Len(Unhit)) = Unhit)]_vars

\* The run has ended: the starship collided with the first asteroid, the old
\* bullet went out of range, and the second asteroid, wrapped to the bottom,
\* is still there with its size and velocity.
C20_Witness ==
  /\ phase = "idle"
  /\ ticksLeft = 0
  /\ starships = <<>>
  /\ \A i \in DOMAIN bullets : bullets[i].start # PersistBullet.start
  /\ \E j \in DOMAIN asteroids :
       /\ asteroids[j].size = "Big"
       /\ asteroids[j].vel = <<0, ASTEROID_VELOCITY>>
       /\ asteroids[j].pos[2] < 0

C26_LeftTakesPrecedence ==
  [][(Runs("keyboard_events") /\ {"Left", "Right"} \subseteq keys) =>
       \A i \in DOMAIN starships : starships'[i].rot = starships[i].rot + 1]_vars

\* keyboard_events has run with both keys held on a starship that pointed
\* along +y: it has turned left.
C26_Witness ==
  /\ "keyboard_events" \in done
  /\ {"Left", "Right"} \subseteq keys
  /\ \E i \in DOMAIN starships : starships[i].rot = 1

\* C22: whenever update_position or a collision detector runs, the Transform
\* scale it reads for every asteroid is the scale of the asteroid's size class,
\* also in the first frame after the asteroid was spawned.
C22_ScaleOfSizeClass ==
  [][(\/ Runs("update_position")
      \/ (Runs("detect_starship_asteroid_collision") /\ starships # <<>>)
      \/ (Runs("detect_bullet_asteroid_collision") /\ bullets # <<>>)) =>
       \A j \in DOMAIN asteroids :
         asteroids[j].scale = AsteroidScale(asteroids[j].size)]_vars

\* The number of entities of each kind.
Population == <<Len(starships), Len(bullets), Len(asteroids)>>

\* C23: the spawns and despawns a frame's systems request are applied only
\* once every system of the frame has run: no step of a frame before that
\* adds or removes an entity, so every system and every collision scan of the
\* frame sees the same entities, and the flush applies the queued commands.
C23_CommandsDeferred ==
  [][/\ (phase' = "run") => Population' = Population
     /\ Flushes =>
          (/\ done = Systems
           /\ starships' = Apply(starships, Queue, "starship")
           /\ bullets' = Apply(bullets, Queue, "bullet")
           /\ asteroids' = Apply(asteroids, Queue, "asteroid"))]_vars

\* Every system of a frame has run, a hit of a bullet on an asteroid is queued
\* with its two spawns, and the six asteroids are all still there.
C23_Witness ==
  /\ done = Systems
  /\ SpawnCount(HitQueue, "asteroid") = 2
  /\ Despawned(HitQueue, "bullet") # {}
  /\ Len(asteroids) = InitialAsteroids
  /\ bullets # <<>>

\* The weight of an asteroid: what it can still split into, counted in Small.
Weight(size) ==
  CASE size = "Big" -> 4
    [] size = "Medium" -> 2
    [] size = "Small" -> 1

RECURSIVE TotalWeight(_)
TotalWeight(as) ==
  IF as = <<>> THEN 0 ELSE Weight(Head(as).size) + TotalWeight(Tail(as))

\* C24: in every state 4 * (number of Big) + 2 * (number of Medium) +
\* (number of Small) is at most 24, so there are never more than 24 asteroids.
C24_PopulationBound ==
  TotalWeight(asteroids) <= 4 * InitialAsteroids /\ Len(asteroids) <= 4 * InitialAsteroids

\* C25: once the starship has been despawned no bullet is spawned again:
\* keyboard_events queues nothing whatever events arrive, the flush adds no
\* bullet, and keyboard_events and decelerate_starship change no entity
\* whatever keys are held.
C25_NoFireAfterDestruction ==
  [][(starships = <<>>) =>
       /\ Runs("keyboard_events") => (cmds'["keyboard_events"] = <<>> /\ world' = world)
       /\ Runs("decelerate_starship") => world' = world
       /\ Flushes => (BulletsSpawned = 0 /\ starships' = <<>>)]_vars

\* Every system has run in a frame after the starship's despawn in which
\* Space was pressed with Up held: keyboard_events has queued nothing.
C25_Witness ==
  /\ starships = <<>>
  /\ done = Systems
  /\ Presses(events) > 0
  /\ "Up" \in keys
  /\ cmds["keyboard_events"] = <<>>

C28_IdleOutsideGame ==
  [][(gameState # "Game") =>
       /\ world = <<<<>>, <<>>, <<>>>>
       /\ cmds = NoCmds
       /\ cmds' = NoCmds
       /\ (~EntersGame) => (world' = world)]_vars

\* Every simulation system has run in a frame of the menu that delivered a
\* press of Space.
C28_Witness ==
  /\ gameState = "Menu"
  /\ menuState = "Main"
  /\ done = Systems
  /\ Presses(events) > 0

\* C29: whenever no state transition is pending, MenuState differs from
\* Disabled exactly if GameState is Menu; entering Menu asks for
\* MenuState::Main, and the click of Play asks for GameState::Game and
\* MenuState::Disabled in one step.
C29_MenuEnabledIffMenu ==
  [][/\ NoPending' => ((menuState' # "Disabled") <=> (gameState' = "Menu"))
     /\ (gameState # "Menu" /\ gameState' = "Menu") => (nextMenu' = "Main")
     /\ (nextGame # "Game" /\ nextGame' = "Game") => (nextMenu' = "Disabled")]_vars

\* Play was clicked on the main menu after a visit to a settings screen, and
\* both transitions have been applied.
C29_Witness ==
  /\ NoPending
  /\ gameState = "Game"
  /\ menuState = "Disabled"
  /\ volume # 7

\* The settings screens.
SettingScreens == {"SettingsDisplay", "SettingsSound"}

\* C30: on a settings screen exactly one option button carries SelectedOption,
\* its value is the value of the setting resource, and a click of that button
\* changes neither the resource nor the marks.
C30_OneSelectedOption ==
  (menuState \in SettingScreens) =>
     /\ Cardinality(selected) = 1
     /\ selected = {Setting}
     /\ Clicked(Setting) = <<Setting, selected>>

\* The sound settings screen after clicks that changed both settings.
C30_Witness ==
  /\ menuState = "SettingsSound"
  /\ volume # 7
  /\ quality # "Medium"
  /\ selected = {volume}

====
